---- MODULE Spec2Model ----
(***************************************************************************)
(* Model of nile's Account abstraction (src/nile/core/account.py) and of   *)
(* the numeric helpers of src/nile/utils/__init__.py.                      *)
(*                                                                         *)
(* Python values are tagged records: an int is [t |-> "int", i |-> n], a   *)
(* str is [t |-> "str", s |-> <<characters>>], None is [t |-> "none"].     *)
(* The collaborators that live outside the two source files (address      *)
(* book, signer, dispatcher, nonce source, is_alias) are modelled from    *)
(* their documented contract.                                              *)
(***************************************************************************)
EXTENDS Integers, Sequences, FiniteSets, TLC

VARIABLES
    accounts,     \* account address book: records of every network
    deployments,  \* deployment address book: records of every network
    objs,         \* the Account objects constructed so far, in order
    last,         \* what the last handler did: inputs, collaborator calls, result
    chainNonce,   \* nonce the network holds for the raced account
    threads,      \* the interleaved send/declare calls on the raced account
    calc          \* input and result of the last pure helper evaluated

vars == <<accounts, deployments, objs, last, chainNonce, threads, calc>>

-----------------------------------------------------------------------------
(* Bounds *)

MaxObjs == 2

\* callers interleaved on one account, and the nonces the network hands out
MaxCallers == 2
MaxNonce == 3

\* width of a limb of the two-limb integers, scaled down from the 128 bits of
\* the source so that every limb value is enumerated
LimbBits == 4

-----------------------------------------------------------------------------
(* Python values *)

PyInt(n) == [t |-> "int", i |-> n]
PyStr(s) == [t |-> "str", s |-> s]
PyNone == [t |-> "none"]

DecChars == {"0", "1", "2", "3", "4", "5", "6", "7", "8", "9"}
HexChars == DecChars \cup {"a", "b", "c", "d", "e", "f"}

DigitVal ==
    ("0" :> 0) @@ ("1" :> 1) @@ ("2" :> 2) @@ ("3" :> 3) @@ ("4" :> 4) @@
    ("5" :> 5) @@ ("6" :> 6) @@ ("7" :> 7) @@ ("8" :> 8) @@ ("9" :> 9) @@
    ("a" :> 10) @@ ("b" :> 11) @@ ("c" :> 12) @@ ("d" :> 13) @@ ("e" :> 14) @@
    ("f" :> 15)

DigitChar == <<"0", "1", "2", "3", "4", "5", "6", "7", "8", "9">>

RECURSIVE ParseDigits(_, _)
\* value of a sequence of digits in the given base, most significant first
ParseDigits(s, base) ==
    IF Len(s) = 0 THEN 0
    ELSE ParseDigits(SubSeq(s, 1, Len(s) - 1), base) * base + DigitVal[s[Len(s)]]

\* str.startswith("0x")
StartsWith0x(s) == Len(s) >= 2 /\ s[1] = "0" /\ s[2] = "x"

\* int(s) succeeds on a str: a non-empty run of decimal digits
IsDecLiteral(s) == Len(s) > 0 /\ \A k \in 1..Len(s) : s[k] \in DecChars

\* int(s, 16) succeeds on a 0x-prefixed str
IsHexLiteral(s) ==
    /\ StartsWith0x(s)
    /\ Len(s) > 2
    /\ \A k \in 3..Len(s) : s[k] \in HexChars

\* int(x) raises ValueError unless x is an int or a decimal literal
CanInt(x) == x.t = "int" \/ (x.t = "str" /\ IsDecLiteral(x.s))

\* int(x)
ToInt(x) == IF x.t = "int" THEN x.i ELSE ParseDigits(x.s, 10)

\* normalize_number(number) returns instead of raising
CanNormalize(x) ==
    IF x.t = "str" /\ StartsWith0x(x.s) THEN IsHexLiteral(x.s) ELSE CanInt(x)

normalize_number(x) ==
    IF x.t = "str" /\ StartsWith0x(x.s)
    THEN ParseDigits(SubSeq(x.s, 3, Len(x.s)), 16)
    ELSE ToInt(x)

RECURSIVE DecDigits(_)
DecDigits(n) ==
    IF n < 10 THEN <<DigitChar[n + 1]>>
    ELSE Append(DecDigits(n \div 10), DigitChar[(n % 10) + 1])

\* str(n) of a non-negative int
str(n) == PyStr(DecDigits(n))

\* nile.common.is_alias: a str that parses neither as decimal nor as 0x-hex
is_alias(x) == x.t = "str" /\ ~IsDecLiteral(x.s) /\ ~IsHexLiteral(x.s)

-----------------------------------------------------------------------------
(* Collaborators *)

Networks == {"goerli", "mainnet"}

\* os.environ: the credential source; the name C has no entry, the entry of
\* X is not a number
Environ ==
    (<<"A">> :> <<"0", "x", "1">>) @@ (<<"B">> :> <<"2">>) @@
    (<<"X">> :> <<"k", "e", "y">>)

SignerNames == {<<"A">>, <<"B">>, <<"C">>, <<"X">>}

PrivateKeys == {1, 2}

\* Signer(private_key).public_key: an injective image of the private key
public_key(private_key) == 10 + private_key

\* Dispatcher deploy of the Account class: the address the network derives
\* from the constructor calldata [public_key]
DeployedAddress(pubkey) == 100 + pubkey

\* accounts.exists(pubkey, network)
accounts_exists(book, pubkey, network) ==
    \E r \in book : r.network = network /\ r.public_key = pubkey

\* accounts.load(pubkey, network): the records the iterator yields
accounts_load(book, pubkey, network) ==
    {r \in book : r.network = network /\ r.public_key = pubkey}

\* accounts.register(pubkey, address, index, alias, network): one record per
\* (pubkey, network), written or overwritten
accounts_register(book, pubkey, address, index, alias, network) ==
    {r \in book : ~(r.network = network /\ r.public_key = pubkey)} \cup
    {[network |-> network, public_key |-> pubkey, address |-> address,
      index |-> index, alias |-> alias]}

\* accounts.current_index(network): the next unused index, 0 if none exist
current_index(book, network) ==
    LET used == {r.index : r \in {q \in book : q.network = network}}
    IN  IF used = {} THEN 0
        ELSE (CHOOSE m \in used : \A k \in used : k <= m) + 1

\* deployments.load(identifier, network): the records the iterator yields,
\* matched by address or by alias
deployments_load(book, identifier, network) ==
    {r \in book :
        /\ r.network = network
        /\ \/ identifier.t = "int" /\ identifier.i = r.address
           \/ identifier.t = "str" /\ identifier.s = r.alias}

\* f"account-{index}"
AccountAlias(index) ==
    <<"a", "c", "c", "o", "u", "n", "t", "-">> \o DecDigits(index)

-----------------------------------------------------------------------------
(* Account.__init__ and Account.deploy *)

\* an Account object none of whose attributes is set
FailedObj == [attrs |-> {}]

BoundObj(key, alias, network, address, index) ==
    [attrs |-> {"signer", "alias", "network", "abi_path", "address", "index"},
     signer |-> key, alias |-> alias, network |-> network,
     address |-> address, index |-> index]

IsBound(o) == "address" \in o.attrs

\* Account.deploy that returns without accounts.register
Account_deploy_unregistered(book, key, alias, network, deployOk) ==
    LET index == current_index(book, network)
        pubkey == public_key(key)
    IN  [result |-> IF deployOk THEN "ok" ELSE "DispatcherError",
         calls |-> <<[fn |-> "accounts.current_index", network |-> network,
                      returns |-> index],
                     [fn |-> "deploy", contract |-> "Account",
                      calldata |-> <<pubkey>>, network |-> network,
                      alias |-> AccountAlias(index), ok |-> deployOk]>>,
         address |-> DeployedAddress(pubkey), index |-> index, book |-> book]

\* Account.deploy that registers the record before it deploys
Account_deploy_registers_first(book, key, alias, network, deployOk) ==
    LET index == current_index(book, network)
        pubkey == public_key(key)
        address == DeployedAddress(pubkey)
    IN  [result |-> IF deployOk THEN "ok" ELSE "DispatcherError",
         calls |-> <<[fn |-> "accounts.current_index", network |-> network,
                      returns |-> index],
                     [fn |-> "accounts.register", public_key |-> pubkey,
                      address |-> address, index |-> index, alias |-> alias,
                      network |-> network],
                     [fn |-> "deploy", contract |-> "Account",
                      calldata |-> <<pubkey>>, network |-> network,
                      alias |-> AccountAlias(index), ok |-> deployOk]>>,
         address |-> address, index |-> index,
         book |-> accounts_register(book, pubkey, address, index, alias,
                                    network)]

\* Account.deploy: what it calls, what it returns and the book it leaves
Account_deploy(book, key, alias, network, deployOk) ==
    LET index == current_index(book, network)
        pubkey == public_key(key)
        c1 == [fn |-> "accounts.current_index", network |-> network,
               returns |-> index]
        c2 == [fn |-> "deploy", contract |-> "Account",
               calldata |-> <<pubkey>>, network |-> network,
               alias |-> AccountAlias(index), ok |-> deployOk]
        address == DeployedAddress(pubkey)
        c3 == [fn |-> "accounts.register", public_key |-> pubkey,
               address |-> address, index |-> index, alias |-> alias,
               network |-> network]
    IN  IF deployOk
        THEN [result |-> "ok", calls |-> <<c1, c2, c3>>,
              address |-> address, index |-> index,
              book |-> accounts_register(book, pubkey, address, index,
                                         alias, network)]
        ELSE [result |-> "DispatcherError", calls |-> <<c1, c2>>,
              address |-> 0, index |-> index, book |-> book]

\* Account.__init__ that deploys without asking accounts.exists
Resolve_always_deploys(book, key, alias, network, info, deployOk) ==
    IF info.t # "none"
    THEN [result |-> "ok", calls |-> <<>>, book |-> book,
          obj |-> BoundObj(key, alias, network, info.address, info.index)]
    ELSE LET d == Account_deploy(book, key, alias, network, deployOk)
         IN  [result |-> d.result, book |-> d.book, calls |-> d.calls,
              obj |-> BoundObj(key, alias, network, d.address, d.index)]

\* Account.__init__ that asks the book before it looks at the metadata
Resolve_book_first(book, key, alias, network, info, deployOk) ==
    LET pubkey == public_key(key)
        q == [fn |-> "accounts.exists", public_key |-> pubkey,
              network |-> network]
    IN  IF accounts_exists(book, pubkey, network)
        THEN LET signer_data ==
                     CHOOSE r \in accounts_load(book, pubkey, network) : TRUE
             IN  [result |-> "ok", book |-> book,
                  calls |-> <<q, [fn |-> "accounts.load",
                                  public_key |-> pubkey,
                                  network |-> network]>>,
                  obj |-> BoundObj(key, alias, network, signer_data.address,
                                   signer_data.index)]
        ELSE IF info.t # "none"
        THEN [result |-> "ok", calls |-> <<q>>, book |-> book,
              obj |-> BoundObj(key, alias, network, info.address, info.index)]
        ELSE LET d == Account_deploy(book, key, alias, network, deployOk)
             IN  [result |-> d.result, book |-> d.book,
                  calls |-> <<q>> \o d.calls,
                  obj |-> BoundObj(key, alias, network, d.address, d.index)]

\* Account.__init__ past the try block: bind from the metadata, from the
\* book, or deploy
Resolve(book, key, alias, network, info, deployOk) ==
    LET pubkey == public_key(key)
        q == [fn |-> "accounts.exists", public_key |-> pubkey,
              network |-> network]
    IN  IF info.t # "none"
        THEN [result |-> "ok", calls |-> <<>>, book |-> book,
              obj |-> BoundObj(key, alias, network, info.address, info.index)]
        ELSE IF accounts_exists(book, pubkey, network)
        THEN LET signer_data ==
                     CHOOSE r \in accounts_load(book, pubkey, network) : TRUE
             IN  [result |-> "ok", book |-> book,
                  calls |-> <<q, [fn |-> "accounts.load",
                                  public_key |-> pubkey,
                                  network |-> network]>>,
                  obj |-> BoundObj(key, alias, network, signer_data.address,
                                   signer_data.index)]
        ELSE LET d == Account_deploy(book, key, alias, network, deployOk)
             IN  [result |-> d.result, book |-> d.book,
                  calls |-> <<q>> \o d.calls,
                  obj |-> BoundObj(key, alias, network, d.address, d.index)]

\* Account.__init__ whose try block does not catch the KeyError
Account_init_raises(book, signer, network, info, deployOk) ==
    IF info.t = "none" /\ signer.s \notin DOMAIN Environ
    THEN [result |-> "KeyError", calls |-> <<>>, book |-> book,
          obj |-> FailedObj]
    ELSE IF info.t = "none" /\ ~CanNormalize(PyStr(Environ[signer.s]))
    THEN [result |-> "ValueError", calls |-> <<>>, book |-> book,
          obj |-> FailedObj]
    ELSE Resolve(book,
                 IF info.t = "none"
                 THEN normalize_number(PyStr(Environ[signer.s]))
                 ELSE signer.i,
                 IF info.t = "none" THEN signer.s ELSE info.alias,
                 network, info, deployOk)

\* Account.__init__(signer, network, predeployed_info)
Account_init(book, signer, network, info, deployOk) ==
    IF info.t = "none" /\ signer.s \notin DOMAIN Environ
    THEN \* KeyError, logged: the constructor returns
         [result |-> "soft_fail", calls |-> <<>>, book |-> book,
          obj |-> FailedObj]
    ELSE IF info.t = "none" /\ ~CanNormalize(PyStr(Environ[signer.s]))
    THEN \* ValueError of normalize_number, not caught
         [result |-> "ValueError", calls |-> <<>>, book |-> book,
          obj |-> FailedObj]
    ELSE LET key == IF info.t = "none"
                    THEN normalize_number(PyStr(Environ[signer.s]))
                    ELSE signer.i
             alias == IF info.t = "none" THEN signer.s ELSE info.alias
         IN  Resolve(book, key, alias, network, info, deployOk)

\* the pre-deployment metadata a caller can pass
PredeployedInfos ==
    {[t |-> "info", alias |-> <<"p", "r", "e">>, address |-> 50, index |-> 5]}

ConstructArgs ==
    {[signer |-> PyStr(n), network |-> net, info |-> PyNone] :
        n \in SignerNames, net \in Networks}
    \cup
    {[signer |-> PyInt(k), network |-> net, info |-> i] :
        k \in PrivateKeys, net \in Networks, i \in PredeployedInfos}

\* a == Account(signer, network, predeployed_info): when the constructor
\* raises, no object comes to exist
Construct ==
    /\ Len(objs) < MaxObjs
    /\ \E a \in ConstructArgs, deployOk \in BOOLEAN :
         LET r == Account_init(accounts, a.signer, a.network, a.info, deployOk)
         IN  /\ accounts' = r.book
             /\ objs' = IF r.result \in {"ok", "soft_fail"}
                        THEN Append(objs, r.obj) ELSE objs
             /\ last' = [op |-> "__init__", args |-> a, result |-> r.result,
                         calls |-> r.calls,
                         o |-> IF r.result \in {"ok", "soft_fail"}
                               THEN Len(objs) + 1 ELSE 0]
    /\ UNCHANGED <<deployments, chainNonce, threads, calc>>

-----------------------------------------------------------------------------
(* Account.send *)

\* nile.common.UNIVERSAL_DEPLOYER_ADDRESS, a 0x-prefixed str
UNIVERSAL_DEPLOYER_ADDRESS == PyStr(<<"0", "x", "4", "1">>)

\* Signer.sign_transaction: the packed __execute__ calldata of the calls
PackedCalldata(calls, nonce) ==
    [call_array_len |-> Len(calls), calls |-> calls, nonce |-> nonce]

\* Signer.sign: the (r, s) pair of a private key over a payload, by nonce
\* and fee
SigR(key, nonce) == 1000 + 10 * key + nonce
SigS(key, max_fee) == 2000 + 10 * key + max_fee

\* a nonce taken one past the value the nonce source returned
resolve_nonce_next(nonce, queried) ==
    IF nonce.t = "none" THEN queried + 1 ELSE nonce.i

\* the nonce of send and declare, asked for whenever the given one is falsy
resolve_nonce_falsy(nonce, queried) ==
    IF nonce.t = "none" \/ nonce.i = 0 THEN queried ELSE nonce.i

\* `if nonce is None: nonce = get_nonce(self.address, self.network)`, given
\* what get_nonce returns
resolve_nonce(nonce, queried) == IF nonce.t = "none" THEN queried ELSE nonce.i

\* max_fee = 0 if max_fee is None else int(max_fee)
MaxFee(max_fee) == IF max_fee.t = "none" THEN 0 ELSE ToInt(max_fee)

\* [int(x) for x in calldata]
IntList(calldata) == [k \in 1..Len(calldata) |-> ToInt(calldata[k])]

\* the AttributeError of a method run on an object without attributes
AttributeError(obj, calls) ==
    [result |-> "AttributeError", calls |-> calls, self |-> obj]

\* Account.send that hands `to` to the lookup as it was given
send_to_raw(to) == to

\* Account.send(to, ...), `if not is_alias(to): to = normalize_number(to)`
send_to(to) == IF is_alias(to) THEN to ELSE PyInt(normalize_number(to))

\* Account.send that never asks deployments.load
target_address_unresolved(book, to, network) == to

\* Account.send, the try block: the first record deployments.load yields, or
\* `to` itself when it yields none
target_address(book, to, network) ==
    LET found == deployments_load(book, to, network)
    IN  IF found # {} THEN PyInt((CHOOSE r \in found : TRUE).address)
        ELSE to

\* Account.send(to, method, calldata, max_fee, nonce); ext holds what the
\* collaborators answer: nonceVal, signerOk, dispatchOk
send(obj, to, method, calldata, max_fee, nonce, ext) ==
    LET to1 == send_to(to)
    IN
    IF "network" \notin obj.attrs THEN AttributeError(obj, <<>>)
    ELSE
    LET c1 == [fn |-> "deployments.load", identifier |-> to1,
               network |-> obj.network]
        target == target_address(deployments, to1, obj.network)
    IN
    IF \E k \in 1..Len(calldata) : ~CanInt(calldata[k])
    THEN [result |-> "ValueError", calls |-> <<c1>>, self |-> obj]
    ELSE
    LET data == IntList(calldata)
        nonce1 == resolve_nonce(nonce, ext.nonceVal)
        c2 == IF nonce.t = "none"
              THEN <<[fn |-> "get_nonce", address |-> obj.address,
                      network |-> obj.network, returns |-> ext.nonceVal]>>
              ELSE <<>>
        fee == MaxFee(max_fee)
        call_list == <<[to |-> target, method |-> method,
                        calldata |-> data]>>
        c3 == [fn |-> "sign_transaction", sender |-> obj.address,
               calls |-> call_list, nonce |-> nonce1, max_fee |-> fee,
               ok |-> ext.signerOk]
        c4 == [fn |-> "call_or_invoke", type |-> "invoke",
               method |-> "__execute__",
               params |-> PackedCalldata(call_list, nonce1),
               network |-> obj.network,
               signature |-> <<str(SigR(obj.signer, nonce1)),
                               str(SigS(obj.signer, fee))>>,
               max_fee |-> str(fee), ok |-> ext.dispatchOk]
    IN
    IF ~ext.signerOk
    THEN [result |-> "SignerError", calls |-> <<c1>> \o c2 \o <<c3>>,
          self |-> obj]
    ELSE [result |-> IF ext.dispatchOk THEN "ok" ELSE "DispatcherError",
          calls |-> <<c1>> \o c2 \o <<c3, c4>>, self |-> obj]

\* Account.deploy_contract: the arguments it hands to send
deploy_contract_send_args(class_hash, salt, unique, calldata, max_fee, deployer_address) ==
    [to |-> IF deployer_address.t = "none"
                 \/ (deployer_address.t = "int" /\ deployer_address.i = 0)
                 \/ (deployer_address.t = "str" /\ deployer_address.s = <<>>)
            THEN UNIVERSAL_DEPLOYER_ADDRESS ELSE deployer_address,
     method |-> "deployContract",
     calldata |-> <<class_hash, salt, unique, PyInt(Len(calldata))>>
                  \o calldata,
     max_fee |-> max_fee,
     nonce |-> PyNone]

\* Account.deploy_contract that clears the address of the account
deploy_contract_rebinds(obj, class_hash, salt, unique, calldata, max_fee, deployer_address, ext) ==
    LET a == deploy_contract_send_args(class_hash, salt, unique, calldata,
                                       max_fee, deployer_address)
        r == send(obj, a.to, a.method, a.calldata, a.max_fee, a.nonce, ext)
    IN  [result |-> r.result, calls |-> r.calls, sends |-> <<a>>,
         self |-> IF IsBound(obj)
                  THEN [obj EXCEPT !.address = 0]
                  ELSE r.self]

\* Account.deploy_contract that sends from a default account when the object
\* has none
deploy_contract_default_account(obj, class_hash, salt, unique, calldata, max_fee, deployer_address, ext) ==
    LET a == deploy_contract_send_args(class_hash, salt, unique, calldata,
                                       max_fee, deployer_address)
        from == IF IsBound(obj) THEN obj
                ELSE BoundObj(1, <<>>, "goerli", 0, 0)
        r == send(from, a.to, a.method, a.calldata, a.max_fee, a.nonce, ext)
    IN  [result |-> r.result, calls |-> r.calls, self |-> obj,
         sends |-> <<a>>]

\* Account.deploy_contract(class_hash, salt, unique, calldata, max_fee,
\* deployer_address)
deploy_contract(obj, class_hash, salt, unique, calldata, max_fee, deployer_address, ext) ==
    LET a == deploy_contract_send_args(class_hash, salt, unique, calldata,
                                       max_fee, deployer_address)
        r == send(obj, a.to, a.method, a.calldata, a.max_fee, a.nonce, ext)
    IN  [result |-> r.result, calls |-> r.calls, self |-> r.self,
         sends |-> <<a>>]

-----------------------------------------------------------------------------
(* Account.declare *)

\* nile.common.BUILD_DIRECTORY and ABIS_DIRECTORY
DefaultPath == <<"artifacts", "artifacts/abis">>

OverridingPaths == {PyNone, [t |-> "path", dirs |-> <<"custom", "custom/abis">>]}

ContractNames == {"token", "nft"}

\* the compiled classes on disk: directory and contract name of each
ArtifactFiles ==
    {[dir |-> "artifacts", name |-> "token"], [dir |-> "custom", name |-> "nft"]}

\* get_contract_class: the file it opens
contract_class_file(contract_name, overriding_path) ==
    LET base_path == IF overriding_path.t # "none" THEN overriding_path.dirs
                     ELSE DefaultPath
    IN  [dir |-> base_path[1], name |-> contract_name]

\* Account.declare that signs before it loads the contract class
declare_signs_first(obj, contract_name, max_fee, nonce, alias, overriding_path, ext) ==
    IF "address" \notin obj.attrs
    THEN AttributeError(obj, <<>>)
    ELSE
    LET nonce1 == resolve_nonce(nonce, ext.nonceVal)
        c1 == IF nonce.t = "none"
              THEN <<[fn |-> "get_nonce", address |-> obj.address,
                      network |-> obj.network, returns |-> ext.nonceVal]>>
              ELSE <<>>
        fee == MaxFee(max_fee)
        file == contract_class_file(contract_name, overriding_path)
        c2 == [fn |-> "get_contract_class", file |-> file]
        c3 == [fn |-> "sign_declare", sender |-> obj.address,
               contract_class |-> file, nonce |-> nonce1, max_fee |-> fee,
               ok |-> ext.signerOk]
        c4 == [fn |-> "declare", sender |-> obj.address,
               contract_name |-> contract_name,
               signature |-> <<SigR(obj.signer, nonce1),
                               SigS(obj.signer, fee)>>,
               alias |-> alias, network |-> obj.network, max_fee |-> fee,
               ok |-> ext.dispatchOk]
    IN
    IF ~ext.signerOk
    THEN [result |-> "SignerError", calls |-> c1 \o <<c3>>, self |-> obj]
    ELSE IF file \notin ArtifactFiles
    THEN [result |-> "ArtifactNotFound", calls |-> c1 \o <<c3, c2>>,
          self |-> obj]
    ELSE [result |-> IF ext.dispatchOk THEN "ok" ELSE "DispatcherError",
          calls |-> c1 \o <<c3, c2, c4>>, self |-> obj]

\* Account.declare(contract_name, max_fee, nonce, alias, overriding_path);
\* ext holds what the collaborators answer: nonceVal, signerOk, dispatchOk
declare(obj, contract_name, max_fee, nonce, alias, overriding_path, ext) ==
    IF nonce.t = "none" /\ "address" \notin obj.attrs
    THEN AttributeError(obj, <<>>)
    ELSE
    LET bound == "address" \in obj.attrs
        nonce1 == resolve_nonce(nonce, ext.nonceVal)
        c1 == IF nonce.t = "none"
              THEN <<[fn |-> "get_nonce", address |-> obj.address,
                      network |-> obj.network, returns |-> ext.nonceVal]>>
              ELSE <<>>
        fee == MaxFee(max_fee)
        file == contract_class_file(contract_name, overriding_path)
        c2 == [fn |-> "get_contract_class", file |-> file]
    IN
    IF file \notin ArtifactFiles
    THEN [result |-> "ArtifactNotFound", calls |-> c1 \o <<c2>>, self |-> obj]
    ELSE IF ~bound THEN AttributeError(obj, c1 \o <<c2>>)
    ELSE
    LET c3 == [fn |-> "sign_declare", sender |-> obj.address,
               contract_class |-> file, nonce |-> nonce1, max_fee |-> fee,
               ok |-> ext.signerOk]
        c4 == [fn |-> "declare", sender |-> obj.address,
               contract_name |-> contract_name,
               signature |-> <<SigR(obj.signer, nonce1),
                               SigS(obj.signer, fee)>>,
               alias |-> alias, network |-> obj.network, max_fee |-> fee,
               ok |-> ext.dispatchOk]
    IN
    IF ~ext.signerOk
    THEN [result |-> "SignerError", calls |-> c1 \o <<c2, c3>>, self |-> obj]
    ELSE [result |-> IF ext.dispatchOk THEN "ok" ELSE "DispatcherError",
          calls |-> c1 \o <<c2, c3, c4>>, self |-> obj]

-----------------------------------------------------------------------------------------------------------------------------------------------------
(* Inputs of the handlers *)

Alias_tk == <<"t", "k">>

ToValues ==
    {PyStr(Alias_tk), PyStr(<<"0", "x", "1", "a">>), PyStr(<<"2", "6">>),
     PyInt(26)}

CalldataValues ==
    {<<PyStr(<<"0", "x", "1">>), PyStr(<<"1", "0", "0">>)>>,
     <<PyInt(1), PyStr(<<"1", "0", "0">>)>>}

MaxFeeValues == {PyNone, PyInt(5)}

NonceValues == {PyNone, PyInt(0)}

\* what the nonce source, the signer and the dispatcher answer
ExtValues ==
    [nonceVal : {1, 2}, signerOk : BOOLEAN, dispatchOk : BOOLEAN]

\* answers that differ only where the handler does not read them are one
Ext(nonce) ==
    {e \in ExtValues :
        /\ nonce.t # "none" => e.nonceVal = 1
        /\ ~e.signerOk => e.dispatchOk}

ClassHashValues == {PyInt(9), PyStr(<<"0", "x", "9">>)}

DeployCalldataValues == {<<>>, <<PyInt(3)>>, <<PyInt(3), PyInt(4)>>}

DeployerValues == {PyNone, PyInt(0), PyInt(26), PyStr(Alias_tk)}

\* the deployment records of the address book files
DeploymentRecords ==
    {[network |-> "goerli", address |-> 30, alias |-> Alias_tk],
     [network |-> "mainnet", address |-> 26, alias |-> Alias_tk]}

-----------------------------------------------------------------------------
(* Actions on Account objects *)

Send ==
    /\ \E o \in 1..Len(objs), to \in ToValues, calldata \in CalldataValues,
          max_fee \in MaxFeeValues, nonce \in NonceValues :
         \E ext \in Ext(nonce) :
           LET r == send(objs[o], to, "transfer", calldata, max_fee, nonce,
                         ext)
           IN  /\ objs' = [objs EXCEPT ![o] = r.self]
               /\ last' = [op |-> "send", o |-> o, result |-> r.result,
                           calls |-> r.calls,
                           args |-> [to |-> to, method |-> "transfer",
                                     calldata |-> calldata,
                                     max_fee |-> max_fee, nonce |-> nonce]]
    /\ UNCHANGED <<accounts, deployments, chainNonce, threads, calc>>

DeployContract ==
    /\ \E o \in 1..Len(objs), class_hash \in ClassHashValues,
          calldata \in DeployCalldataValues,
          deployer_address \in DeployerValues :
         \E ext \in {e \in Ext(PyNone) : e.nonceVal = 1} :
           LET r == deploy_contract(objs[o], class_hash, PyInt(0), PyInt(1),
                                    calldata, PyNone, deployer_address, ext)
           IN  /\ objs' = [objs EXCEPT ![o] = r.self]
               /\ last' = [op |-> "deploy_contract", o |-> o,
                           result |-> r.result, calls |-> r.calls,
                           sends |-> r.sends,
                           args |-> [class_hash |-> class_hash,
                                     salt |-> PyInt(0), unique |-> PyInt(1),
                                     calldata |-> calldata,
                                     max_fee |-> PyNone,
                                     deployer_address |-> deployer_address]]
    /\ UNCHANGED <<accounts, deployments, chainNonce, threads, calc>>

Declare ==
    /\ \E o \in 1..Len(objs), contract_name \in ContractNames,
          max_fee \in MaxFeeValues, nonce \in NonceValues,
          overriding_path \in OverridingPaths :
         \E ext \in Ext(nonce) :
           LET r == declare(objs[o], contract_name, max_fee, nonce, PyNone,
                            overriding_path, ext)
           IN  /\ objs' = [objs EXCEPT ![o] = r.self]
               /\ last' = [op |-> "declare", o |-> o, result |-> r.result,
                           calls |-> r.calls,
                           args |-> [contract_name |-> contract_name,
                                     max_fee |-> max_fee, nonce |-> nonce,
                                     overriding_path |-> overriding_path]]
    /\ UNCHANGED <<accounts, deployments, chainNonce, threads, calc>>

NoOp == [op |-> "none", o |-> 0, result |-> "ok", calls |-> <<>>,
         args |-> PyNone]

-----------------------------------------------------------------------------
(* Specification of the address book: Account objects constructed one after *)
(* the other from the empty book                                            *)

Init ==
    /\ accounts = {}
    /\ deployments = {}
    /\ objs = <<>>
    /\ last = NoOp
    /\ chainNonce = 0
    /\ threads = <<>>
    /\ calc = PyNone

Next == Construct

Spec == Init /\ [][Next]_vars

-----------------------------------------------------------------------------
(* Specification of the operations: one Account object, as its constructor *)
(* left it, and the calls made on it                                       *)

\* the constructions the object of the operations comes from
OpsConstructArgs ==
    {a \in ConstructArgs :
        \/ a.info.t = "none" /\ a.signer.s \in {<<"A">>, <<"C">>}
        \/ a.info.t # "none" /\ a.signer.i = 2 /\ a.network = "mainnet"}

InitOps ==
    /\ \E a \in OpsConstructArgs :
         LET r == Account_init({}, a.signer, a.network, a.info, TRUE)
         IN  /\ accounts = r.book
             /\ objs = <<r.obj>>
    /\ deployments \in {{}, DeploymentRecords}
    /\ last = NoOp
    /\ chainNonce = 0
    /\ threads = <<>>
    /\ calc = PyNone

NextOps == Send \/ DeployContract \/ Declare

SpecOps == InitOps /\ [][NextOps]_vars

-----------------------------------------------------------------------------------------------------------------------------------------------------
(* Specification of the race: send and declare calls on one Bound account, *)
(* interleaved at their collaborator calls                                 *)

Callers == 1..MaxCallers

IdleCall == [pc |-> "idle", op |-> "none", explicit |-> FALSE, nonce |-> 0,
             stale |-> FALSE, accepted |-> FALSE]

\* the nonces a caller can supply
RaceNonceArgs == {PyNone} \cup {PyInt(n) : n \in 0..MaxNonce}

InitRace ==
    /\ LET r == Account_init({}, PyStr(<<"A">>), "goerli", PyNone, TRUE)
       IN  accounts = r.book /\ objs = <<r.obj>>
    /\ deployments = {}
    /\ last = NoOp
    /\ chainNonce = 0
    /\ threads = [t \in Callers |-> IdleCall]
    /\ calc = PyNone

\* send or declare up to its nonce: the nonce source answers with the nonce
\* the network holds when it is asked
RaceRead(t) ==
    /\ threads[t].pc = "idle"
    /\ chainNonce < MaxNonce
    /\ \E op \in {"send", "declare"}, nonce \in RaceNonceArgs :
         threads' = [threads EXCEPT ![t] =
                        [pc |-> "read", op |-> op,
                         explicit |-> nonce.t # "none",
                         nonce |-> resolve_nonce(nonce, chainNonce),
                         stale |-> FALSE, accepted |-> FALSE]]
    /\ UNCHANGED <<accounts, deployments, objs, last, chainNonce, calc>>

\* sign_transaction or sign_declare over the nonce the call holds
RaceSign(t) ==
    /\ threads[t].pc = "read"
    /\ threads' = [threads EXCEPT ![t].pc = "signed"]
    /\ UNCHANGED <<accounts, deployments, objs, last, chainNonce, calc>>

\* call_or_invoke or declare: the network takes the transaction when its
\* nonce is the account's next one, and rejects it otherwise
RaceDispatch(t) ==
    /\ threads[t].pc = "signed"
    /\ LET ok == threads[t].nonce = chainNonce
       IN  /\ chainNonce' = IF ok THEN chainNonce + 1 ELSE chainNonce
           /\ threads' =
                [u \in Callers |->
                    IF u = t
                    THEN [threads[t] EXCEPT !.pc = "done", !.accepted = ok]
                    ELSE IF ok /\ threads[u].pc \in {"read", "signed"}
                    THEN [threads[u] EXCEPT !.stale = TRUE]
                    ELSE threads[u]]
    /\ UNCHANGED <<accounts, deployments, objs, last, calc>>

\* the call returns to its caller
RaceReturn(t) ==
    /\ threads[t].pc = "done"
    /\ threads' = [threads EXCEPT ![t] = IdleCall]
    /\ UNCHANGED <<accounts, deployments, objs, last, chainNonce, calc>>

NextRace ==
    \E t \in Callers :
        RaceRead(t) \/ RaceSign(t) \/ RaceDispatch(t) \/ RaceReturn(t)

SpecRace == InitRace /\ [][NextRace]_vars

-----------------------------------------------------------------------------
(* The two-limb integers of nile.utils, and their specification: a helper  *)
(* applied to an input                                                     *)

\* 1 << 128
Limb == 2 ^ LimbBits

\* a limb mask one bit short
to_uint_short_mask(a) == <<a % (Limb \div 2), a \div Limb>>

\* to_uint(a): (a & ((1 << 128) - 1), a >> 128)
to_uint(a) == <<a % Limb, a \div Limb>>

\* from_uint(uint): uint[0] + (uint[1] << 128)
from_uint(uint) == uint[1] + uint[2] * Limb

\* add_uint(a, b): to_uint(from_uint(a) + from_uint(b))
add_uint(a, b) == to_uint(from_uint(a) + from_uint(b))

\* sub_uint(a, b): to_uint(from_uint(a) - from_uint(b))
sub_uint(a, b) == to_uint(from_uint(a) - from_uint(b))

\* mul_uint(a, b): to_uint(from_uint(a) * from_uint(b))
mul_uint(a, b) == to_uint(from_uint(a) * from_uint(b))

\* the bits of the significand of a float: 53 where a limb has 128, fewer
\* than one limb holds
MantissaBits == LimbBits \div 2

\* a / b >= 2^k, for positive a and b
GeScaled(a, b, k) ==
    IF k >= 0 THEN a >= b * (2 ^ k) ELSE a * (2 ^ (0 - k)) >= b

\* the exponent of a / b: the k with 2^k <= a / b < 2^(k+1)
FloorLog2(a, b) ==
    CHOOSE k \in (0 - 2 * LimbBits)..(2 * LimbBits) :
        GeScaled(a, b, k) /\ ~GeScaled(a, b, k + 1)

\* num / den rounded to the nearest integer, halves to the even one
RoundHalfEven(num, den) ==
    LET q == num \div den
        r == num % den
    IN  IF 2 * r < den THEN q
        ELSE IF 2 * r > den THEN q + 1
        ELSE IF q % 2 = 0 THEN q ELSE q + 1

\* math.trunc(a / b) for a >= 0 and b > 0: the true division gives the
\* float nearest to the quotient, a significand of MantissaBits bits times
\* a power of two, and trunc drops its fraction
trunc_true_div(a, b) ==
    IF a = 0 THEN 0
    ELSE LET e == FloorLog2(a, b) - (MantissaBits - 1)
             num == IF e >= 0 THEN a ELSE a * (2 ^ (0 - e))
             den == IF e >= 0 THEN b * (2 ^ e) ELSE b
             m == RoundHalfEven(num, den)
         IN  IF e >= 0 THEN m * (2 ^ e) ELSE m \div (2 ^ (0 - e))

\* div_rem_uint that answers a zero divisor with quotient 0 and remainder a
div_rem_uint_zero_quotient(a, b) ==
    LET x == from_uint(a)
        y == from_uint(b)
    IN  IF y = 0
        THEN [ok |-> TRUE, value |-> <<to_uint(0), to_uint(x)>>]
        ELSE [ok |-> TRUE,
              value |-> <<to_uint(trunc_true_div(x, y)), to_uint(x % y)>>]

\* div_rem_uint(a, b): a / b raises ZeroDivisionError on a zero divisor
div_rem_uint(a, b) ==
    LET x == from_uint(a)
        y == from_uint(b)
    IN  IF y = 0
        THEN [ok |-> FALSE, error |-> "ZeroDivisionError"]
        ELSE [ok |-> TRUE,
              value |-> <<to_uint(trunc_true_div(x, y)), to_uint(x % y)>>]

-----------------------------------------------------------------------------
(* hex_address *)

\* the hex digits of an address: 64 in the source
AddressDigits == 3

HexDigitChar == DigitChar \o <<"a", "b", "c", "d", "e", "f">>

RECURSIVE HexDigits(_)
\* the hex digits of a non-negative int, most significant first
HexDigits(n) ==
    IF n < 16 THEN <<HexDigitChar[n + 1]>>
    ELSE Append(HexDigits(n \div 16), HexDigitChar[(n % 16) + 1])

\* hex(n) of a non-negative int
hex(n) == <<"0", "x">> \o HexDigits(n)

\* _pad_hex_to_64(hexadecimal): returns inside `if len(hexadecimal) < 66`
\* only, and falls off its end, returning None, otherwise
pad_hex_to_64(hexadecimal) ==
    IF Len(hexadecimal) < AddressDigits + 2
    THEN LET missing_zeros == AddressDigits + 2 - Len(hexadecimal)
         IN  PyStr(SubSeq(hexadecimal, 1, 2)
                     \o [k \in 1..missing_zeros |-> "0"]
                     \o SubSeq(hexadecimal, 3, Len(hexadecimal)))
    ELSE PyNone

\* hex_address(number)
hex_address(number) ==
    IF number.t = "str" /\ StartsWith0x(number.s)
    THEN pad_hex_to_64(number.s)
    ELSE pad_hex_to_64(hex(ToInt(number)))

-----------------------------------------------------------------------------
(* str_to_felt and felt_to_str *)

\* the bytes of a felt string: 31 in the source
FeltBytes == 3

\* ord of the characters of the texts
Ord == ("a" :> 97) @@ ("h" :> 104) @@ ("i" :> 105)

\* the character of a byte: chr(0) is written NUL
Chr(b) == IF b = 0 THEN "NUL" ELSE CHOOSE c \in DOMAIN Ord : Ord[c] = b

RECURSIVE from_bytes(_)
\* int.from_bytes(b, "big")
from_bytes(b) ==
    IF Len(b) = 0 THEN 0
    ELSE from_bytes(SubSeq(b, 1, Len(b) - 1)) * 256 + b[Len(b)]

\* str_to_felt(text): int.from_bytes(bytes(text, "ascii"), "big")
str_to_felt(text) == from_bytes([k \in 1..Len(text) |-> Ord[text[k]]])

\* felt.to_bytes(length, "big") raises OverflowError on an int too large
FitsBytes(n, length) == n \div (256 ^ (length - 1)) < 256

\* felt.to_bytes(length, "big"): the bytes, zeros first
to_bytes(n, length) ==
    [k \in 1..length |-> (n \div (256 ^ (length - k))) % 256]

\* "0x" in felt, for a str
Contains0x(s) == \E k \in 1..(Len(s) - 1) : s[k] = "0" /\ s[k + 1] = "x"

\* felt_to_str(felt): `"0x" in felt` raises TypeError on an int; a str is
\* parsed, laid out on FeltBytes bytes and decoded, zero bytes included
felt_to_str(felt) ==
    IF felt.t # "str" THEN [ok |-> FALSE, error |-> "TypeError"]
    ELSE IF Contains0x(felt.s) /\ ~IsHexLiteral(felt.s)
    THEN [ok |-> FALSE, error |-> "ValueError"]
    ELSE IF ~Contains0x(felt.s) /\ ~IsDecLiteral(felt.s)
    THEN [ok |-> FALSE, error |-> "ValueError"]
    ELSE LET n == IF Contains0x(felt.s)
                  THEN ParseDigits(SubSeq(felt.s, 3, Len(felt.s)), 16)
                  ELSE ParseDigits(felt.s, 10)
         IN  IF ~FitsBytes(n, FeltBytes)
             THEN [ok |-> FALSE, error |-> "OverflowError"]
             ELSE LET b_felt == to_bytes(n, FeltBytes)
                  IN  [ok |-> TRUE,
                       value |-> PyStr([k \in 1..FeltBytes |->
                                           Chr(b_felt[k])])]

-----------------------------------------------------------------------------
(* Specification of the pure helpers: one input, drawn at the start, and    *)
(* the helper calls made on it                                              *)

\* the integers handed to to_uint: the two-limb range and its neighbours
UintInputs == (0 - Limb)..(Limb * Limb + Limb)

\* the limbs of the operands of the arithmetic: the ends of the limb range
\* and its middle
LimbSamples == {0, 1, 2, 3, Limb \div 2, Limb - 1}

UintPairs == (0..(Limb - 1)) \X (0..(Limb - 1))

\* the operand pairs of add_uint, sub_uint, mul_uint and div_rem_uint: the
\* sampled pairs with each other, and every pair with the zero divisor
UintOperands ==
    {[fn |-> "operands", a |-> a, b |-> b] :
        a \in LimbSamples \X LimbSamples, b \in LimbSamples \X LimbSamples}
    \cup {[fn |-> "operands", a |-> a, b |-> <<0, 0>>] : a \in UintPairs}

\* the numbers handed to hex_address: small ones, the ones around the
\* first number of AddressDigits digits, and the largest
AddressNumbers ==
    (0..40)
    \cup ((16 ^ (AddressDigits - 1) - 2)..(16 ^ (AddressDigits - 1) + 2))
    \cup {16 ^ AddressDigits - 1}

\* each number as an int, as its hex string and as its decimal string
HexAddressInputs ==
    {[fn |-> "number", arg |-> x] :
        x \in {PyInt(n) : n \in AddressNumbers}
              \cup {PyStr(hex(n)) : n \in AddressNumbers}
              \cup {str(n) : n \in AddressNumbers}}

RECURSIVE TextsOf(_)
\* the texts of exactly n characters
TextsOf(n) ==
    IF n = 0 THEN {<<>>}
    ELSE {Append(t, c) : t \in TextsOf(n - 1), c \in DOMAIN Ord}

\* the ASCII texts of up to FeltBytes characters
Texts == UNION {TextsOf(n) : n \in 0..FeltBytes}

InitPure ==
    /\ accounts = {}
    /\ deployments = {}
    /\ objs = <<>>
    /\ last = NoOp
    /\ chainNonce = 0
    /\ threads = <<>>
    /\ calc \in {[fn |-> "input", arg |-> a] : a \in UintInputs}
                \cup UintOperands
                \cup HexAddressInputs
                \cup {[fn |-> "text", arg |-> t] : t \in Texts}

\* to_uint applied to the input
ToUint ==
    /\ calc.fn = "input"
    /\ calc' = [fn |-> "to_uint", arg |-> calc.arg,
                result |-> to_uint(calc.arg)]
    /\ UNCHANGED <<accounts, deployments, objs, last, chainNonce, threads>>

\* from_uint applied to the pair to_uint returned
FromUint ==
    /\ calc.fn = "to_uint"
    /\ calc' = [fn |-> "from_uint", arg |-> calc.result,
                result |-> from_uint(calc.result), input |-> calc.arg]
    /\ UNCHANGED <<accounts, deployments, objs, last, chainNonce, threads>>

AddUint ==
    /\ calc.fn = "operands"
    /\ calc' = [fn |-> "add_uint", a |-> calc.a, b |-> calc.b,
                result |-> add_uint(calc.a, calc.b)]
    /\ UNCHANGED <<accounts, deployments, objs, last, chainNonce, threads>>

SubUint ==
    /\ calc.fn = "operands"
    /\ calc' = [fn |-> "sub_uint", a |-> calc.a, b |-> calc.b,
                result |-> sub_uint(calc.a, calc.b)]
    /\ UNCHANGED <<accounts, deployments, objs, last, chainNonce, threads>>

MulUint ==
    /\ calc.fn = "operands"
    /\ calc' = [fn |-> "mul_uint", a |-> calc.a, b |-> calc.b,
                result |-> mul_uint(calc.a, calc.b)]
    /\ UNCHANGED <<accounts, deployments, objs, last, chainNonce, threads>>

DivRemUint ==
    /\ calc.fn = "operands"
    /\ calc' = [fn |-> "div_rem_uint", a |-> calc.a, b |-> calc.b,
                result |-> div_rem_uint(calc.a, calc.b)]
    /\ UNCHANGED <<accounts, deployments, objs, last, chainNonce, threads>>

HexAddress ==
    /\ calc.fn = "number"
    /\ calc' = [fn |-> "hex_address", arg |-> calc.arg,
                result |-> hex_address(calc.arg)]
    /\ UNCHANGED <<accounts, deployments, objs, last, chainNonce, threads>>

StrToFelt ==
    /\ calc.fn = "text"
    /\ calc' = [fn |-> "str_to_felt", arg |-> calc.arg,
                result |-> str_to_felt(calc.arg)]
    /\ UNCHANGED <<accounts, deployments, objs, last, chainNonce, threads>>

\* felt_to_str applied to the felt str_to_felt returned, handed over as the
\* int it is or as the decimal string of it
FeltToStr ==
    /\ calc.fn = "str_to_felt"
    /\ \E felt \in {PyInt(calc.result), str(calc.result)} :
         calc' = [fn |-> "felt_to_str", arg |-> felt, text |-> calc.arg,
                  result |-> felt_to_str(felt)]
    /\ UNCHANGED <<accounts, deployments, objs, last, chainNonce, threads>>

NextPure ==
    \/ ToUint
    \/ FromUint
    \/ AddUint
    \/ SubUint
    \/ MulUint
    \/ DivRemUint
    \/ HexAddress
    \/ StrToFelt
    \/ FeltToStr

SpecPure == InitPure /\ [][NextPure]_vars

-----
(* Properties of construction, checked under Spec *)

\* number of calls of the collaborator function fn in a handler's trace
Count(calls, fn) == Cardinality({k \in 1..Len(calls) : calls[k].fn = fn})

\* the calls of fn in a handler's trace, in order
CallsOf(calls, fn) == SelectSeq(calls, LAMBDA c : c.fn = fn)

\* the step is a construction from the credential source that returned obj
EnvConstruction(l) ==
    l.op = "__init__" /\ l.args.info = PyNone /\ l.result = "ok"

RecordsOf(book, network) == {r \in book : r.network = network}

\* C1: a construction for a signer without a record on the network, without
\* pre-deployment metadata, makes exactly one Dispatcher deploy and exactly
\* one register; the index it binds and the alias account-{index} it deploys
\* under count the records the network already had (0 for the first signer,
\* 1 for the next), and the book afterwards is the old book plus its record.
C1_FirstUseDeploysOnce ==
    [][LET l == last'
           obj == objs'[l.o]
           net == l.args.network
           pk == public_key(obj.signer)
           n == Cardinality(RecordsOf(accounts, net))
       IN  (EnvConstruction(l) /\ ~accounts_exists(accounts, pk, net)) =>
             /\ Count(l.calls, "deploy") = 1
             /\ Count(l.calls, "accounts.register") = 1
             /\ obj.index = n
             /\ CallsOf(l.calls, "deploy")[1].alias = AccountAlias(n)
             /\ CallsOf(l.calls, "deploy")[1].calldata = <<pk>>
             /\ accounts' = accounts \cup
                  {[network |-> net, public_key |-> pk,
                    address |-> obj.address, index |-> n,
                    alias |-> l.args.signer.s]}
      ]_vars

\* two distinct signers were deployed on one network, with index 0 then 1
C1_Witness ==
    /\ Len(objs) = 2
    /\ EnvConstruction(last) /\ last.o = 2
    /\ Count(last.calls, "deploy") = 1
    /\ IsBound(objs[1]) /\ IsBound(objs[2])
    /\ objs[1].network = objs[2].network
    /\ objs[1].signer # objs[2].signer
    /\ objs[1].index = 0 /\ objs[2].index = 1
    /\ Cardinality(RecordsOf(accounts, objs[1].network)) = 2

\* the book holds one record per (public_key, network) and one per
\* (index, network)
UniqueRecords(book) ==
    \A r1, r2 \in book :
        (/\ r1.network = r2.network
         /\ (r1.public_key = r2.public_key \/ r1.index = r2.index))
        => r1 = r2

\* C2: after every construction the account book holds at most one record
\* per (public_key, network) and no two records of a network share an index;
\* a construction for a signer that has a record makes no deploy and no
\* register, leaves the book as it was and binds the recorded address and
\* index.
C2_OneRecordPerSigner ==
    [][LET l == last'
           obj == objs'[l.o]
           net == l.args.network
           pk == public_key(obj.signer)
       IN  /\ UniqueRecords(accounts')
           /\ (EnvConstruction(l) /\ accounts_exists(accounts, pk, net)) =>
                /\ Count(l.calls, "deploy") = 0
                /\ Count(l.calls, "accounts.register") = 0
                /\ accounts' = accounts
                /\ \E r \in RecordsOf(accounts, net) :
                     /\ r.public_key = pk
                     /\ obj.address = r.address
                     /\ obj.index = r.index
      ]_vars

\* a second object was bound from the record the first construction wrote
C2_Witness ==
    /\ Len(objs) = 2
    /\ EnvConstruction(last) /\ last.o = 2
    /\ Count(last.calls, "accounts.load") = 1
    /\ Count(last.calls, "deploy") = 0
    /\ objs[2] = objs[1]
    /\ Cardinality(accounts) = 1

\* C4: a construction whose signer name the credential source does not hold,
\* without pre-deployment metadata, returns an object with address and index
\* unset, calls no collaborator and leaves the book as it was.
C4_UnresolvedSignerSoftFails ==
    [][LET l == last'
       IN  (/\ l.op = "__init__"
            /\ l.args.info = PyNone
            /\ l.args.signer.s \notin DOMAIN Environ) =>
             /\ l.result = "soft_fail"
             /\ l.o = Len(objs) + 1
             /\ Len(objs') = Len(objs) + 1
             /\ objs'[l.o].attrs \cap {"address", "index"} = {}
             /\ l.calls = <<>>
             /\ accounts' = accounts
      ]_vars

\* an unresolved signer left an unusable object next to a non-empty book
C4_Witness ==
    /\ last.op = "__init__"
    /\ last.result = "soft_fail"
    /\ last.o = 2
    /\ objs[2] = FailedObj
    /\ IsBound(objs[1])
    /\ accounts # {}

------------------------------------------------------------------------\* the step is a construction that went through Account.deploy
DeployStep(l) == l.op = "__init__" /\ Count(l.calls, "deploy") > 0

\* C16: a construction that deploys asks accounts.exists, reads the index
\* with accounts.current_index, then calls the Dispatcher deploy with
\* calldata [public_key] and alias account-{index}, and only after a
\* successful deploy registers that index and binds; when the deploy fails
\* nothing is registered, no object is bound and the network's
\* current_index is still the index that was read.
C16_DeployThenRegisterThenBind ==
    [][LET l == last'
           net == l.args.network
           idx == l.calls[2].returns
           dep == l.calls[3]
       IN  DeployStep(l) =>
             /\ Len(l.calls) >= 3
             /\ l.calls[1].fn = "accounts.exists"
             /\ l.calls[2].fn = "accounts.current_index"
             /\ idx = current_index(accounts, net)
             /\ dep.fn = "deploy"
             /\ dep.alias = AccountAlias(idx)
             /\ Len(dep.calldata) = 1
             /\ IF dep.ok
                THEN /\ l.result = "ok"
                     /\ Len(l.calls) = 4
                     /\ l.calls[4].fn = "accounts.register"
                     /\ l.calls[4].index = idx
                     /\ l.calls[4].public_key = dep.calldata[1]
                     /\ Len(objs') = Len(objs) + 1
                     /\ objs'[l.o].index = idx
                     /\ objs'[l.o].address = l.calls[4].address
                     /\ current_index(accounts', net) = idx + 1
                ELSE /\ l.result = "DispatcherError"
                     /\ Len(l.calls) = 3
                     /\ accounts' = accounts
                     /\ objs' = objs
                     /\ current_index(accounts', net) = idx
      ]_vars

\* a deploy failed after index 1 was read, and the book kept its one record
C16_Witness ==
    /\ DeployStep(last)
    /\ last.result = "DispatcherError"
    /\ last.calls[2].returns = 1
    /\ Cardinality(RecordsOf(accounts, last.args.network)) = 1
    /\ Len(objs) = 1

\* C17: a construction with pre-deployment metadata binds the metadata's
\* address and index, calls neither accounts.exists nor the Dispatcher
\* deploy nor accounts.register, and leaves the book as it was, whether or
\* not the book has a record of the signer.
C17_PredeployedBindsDirectly ==
    [][LET l == last'
       IN  (l.op = "__init__" /\ l.args.info # PyNone) =>
             /\ l.result = "ok"
             /\ l.calls = <<>>
             /\ accounts' = accounts
             /\ Len(objs') = Len(objs) + 1
             /\ l.o = Len(objs')
             /\ objs'[l.o].address = l.args.info.address
             /\ objs'[l.o].index = l.args.info.index
             /\ objs'[l.o].alias = l.args.info.alias
      ]_vars

\* metadata was bound for a signer the book has a record of, with another
\* address
C17_Witness ==
    /\ last.op = "__init__"
    /\ last.args.info # PyNone
    /\ last.o = 2
    /\ \E r \in RecordsOf(accounts, last.args.network) :
         /\ r.public_key = public_key(objs[2].signer)
         /\ r.address # objs[2].address
    /\ objs[2].address = last.args.info.address

-----
(* Properties of the operations, checked under SpecOps *)

\* the object the last handler ran on
LastObj == objs[last.o]

\* the last handler was op, on a Bound account
BoundCall(op) == last.op = op /\ IsBound(LastObj)

\* the sign_transaction calls of the last handler
SignCalls == CallsOf(last.calls, "sign_transaction")

\* C3: every send, declare and deploy_contract on a Bound account, whatever
\* its result, leaves the object (address, index, network) and the account
\* book as they were and calls no accounts.register.
C3_BoundIsTerminal ==
    [][\A o \in 1..Len(objs) :
          IsBound(objs[o]) =>
            /\ Len(objs') = Len(objs)
            /\ objs'[o].address = objs[o].address
            /\ objs'[o].index = objs[o].index
            /\ objs'[o].network = objs[o].network
            /\ accounts' = accounts
            /\ Count(last'.calls, "accounts.register") = 0
      ]_vars

\* a deploy_contract on a Bound account was rejected by the dispatcher
C3_Witness ==
    /\ BoundCall("deploy_contract")
    /\ last.result = "DispatcherError"
    /\ Count(last.calls, "call_or_invoke") = 1

\* C5: a send on a Bound account whose `to` is an alias looks the alias up
\* once on the account's network; the call that is signed targets the
\* recorded address when a record exists and the alias itself when none
\* does; the missing record raises nothing: the signer is asked whenever
\* int() takes the calldata, and the send succeeds when signer and
\* dispatcher do.
C5_AliasResolution ==
    (BoundCall("send") /\ is_alias(last.args.to)) =>
      LET recs == deployments_load(deployments, last.args.to,
                                   LastObj.network)
          convertible == \A k \in 1..Len(last.args.calldata) :
                             CanInt(last.args.calldata[k])
      IN  /\ Count(last.calls, "deployments.load") = 1
          /\ convertible => Len(SignCalls) = 1
          /\ \A k \in 1..Len(SignCalls) :
               /\ Len(SignCalls[k].calls) = 1
               /\ IF recs = {}
                  THEN SignCalls[k].calls[1].to = last.args.to
                  ELSE \E r \in recs :
                         SignCalls[k].calls[1].to = PyInt(r.address)
          /\ (/\ recs = {}
              /\ convertible
              /\ \A k \in 1..Len(last.calls) : last.calls[k].fn \in
                     {"sign_transaction", "call_or_invoke"}
                     => last.calls[k].ok)
             => last.result = "ok"

\* a send to an alias without a record succeeded with the alias as target
C5_Witness ==
    /\ BoundCall("send")
    /\ last.args.to = PyStr(Alias_tk)
    /\ deployments_load(deployments, last.args.to, LastObj.network) = {}
    /\ last.result = "ok"
    /\ Len(SignCalls) = 1
    /\ SignCalls[1].calls[1].to = PyStr(Alias_tk)

\* C6 as stated: a send whose `to` is no alias does not use the deployment
\* lookup, and the call that is signed targets normalize_number(to).
C6_NoLookupForNumbers ==
    (BoundCall("send") /\ ~is_alias(last.args.to)) =>
      /\ Count(last.calls, "deployments.load") = 0
      /\ \A k \in 1..Len(SignCalls) :
           SignCalls[k].calls[1].to = PyInt(normalize_number(last.args.to))

\* C6 as amended: a send whose `to` is no alias looks normalize_number(to)
\* up once on the account's network; the call that is signed targets the
\* address of the record the lookup yields, and normalize_number(to) when
\* it yields none.
C6_NumberIsLookedUpNormalized ==
    (BoundCall("send") /\ ~is_alias(last.args.to)) =>
      LET n == PyInt(normalize_number(last.args.to))
          recs == deployments_load(deployments, n, LastObj.network)
          loads == CallsOf(last.calls, "deployments.load")
      IN  /\ Len(loads) = 1
          /\ loads[1].identifier = n
          /\ loads[1].network = LastObj.network
          /\ \A k \in 1..Len(SignCalls) :
               /\ Len(SignCalls[k].calls) = 1
               /\ IF recs = {}
                  THEN SignCalls[k].calls[1].to = n
                  ELSE \E r \in recs :
                         SignCalls[k].calls[1].to = PyInt(r.address)

\* a send to the hex string of a recorded address was looked up and signed
C6_Witness ==
    /\ BoundCall("send")
    /\ last.args.to = PyStr(<<"0", "x", "1", "a">>)
    /\ deployments_load(deployments, PyInt(26), LastObj.network) # {}
    /\ Len(SignCalls) = 1
    /\ SignCalls[1].calls[1].to = PyInt(26)

\* C7: every send on a Bound account asks the signer exactly once, for one
\* call [target, method, calldata] whose calldata elements are normalized to
\* integers; when the signer answers, the dispatcher is called exactly once,
\* as an invoke of __execute__ with the packed calldata, the signature and
\* the fee as strings; when the signer fails the dispatcher is not called.
C7_SendSignsOnceDispatchesOnce ==
    BoundCall("send") =>
      LET invokes == CallsOf(last.calls, "call_or_invoke")
          data == [k \in 1..Len(last.args.calldata) |->
                      normalize_number(last.args.calldata[k])]
      IN  /\ Len(SignCalls) = 1
          /\ \A k \in 1..Len(SignCalls) :
               /\ Len(SignCalls[k].calls) = 1
               /\ SignCalls[k].calls[1].method = last.args.method
               /\ SignCalls[k].calls[1].calldata = data
               /\ IF SignCalls[k].ok
                  THEN /\ Len(invokes) = 1
                       /\ invokes[1].type = "invoke"
                       /\ invokes[1].method = "__execute__"
                       /\ invokes[1].params =
                            PackedCalldata(SignCalls[k].calls,
                                           SignCalls[k].nonce)
                       /\ invokes[1].signature =
                            <<str(SigR(LastObj.signer, SignCalls[k].nonce)),
                              str(SigS(LastObj.signer, SignCalls[k].max_fee))>>
                       /\ invokes[1].max_fee = str(SignCalls[k].max_fee)
                       /\ last.result = IF invokes[1].ok THEN "ok"
                                        ELSE "DispatcherError"
                  ELSE Len(invokes) = 0 /\ last.result = "SignerError"

\* C8: deploy_contract hands send exactly one call, of method deployContract
\* with calldata [class_hash, salt, unique, n, calldata...], for the
\* deployer address when one is given and for the universal deployer when
\* none is.
C8_DeployContractDelegation ==
    last.op = "deploy_contract" =>
      LET a == last.args
          n == Len(a.calldata)
      IN  /\ Len(last.sends) = 1
          /\ last.sends[1].method = "deployContract"
          /\ Len(last.sends[1].calldata) = n + 4
          /\ last.sends[1].calldata =
               <<a.class_hash, a.salt, a.unique, PyInt(n)>> \o a.calldata
          /\ last.sends[1].to = IF a.deployer_address = PyNone
                                THEN UNIVERSAL_DEPLOYER_ADDRESS
                                ELSE a.deployer_address

\* the signing calls of the last operation, of send and of declare
AllSignCalls ==
    CallsOf(last.calls, "sign_transaction")
        \o CallsOf(last.calls, "sign_declare")

\* the Dispatcher calls of the last operation, of send and of declare
DispatchCalls ==
    CallsOf(last.calls, "call_or_invoke") \o CallsOf(last.calls, "declare")

\* the place of the first call of fn in a trace that has one
PlaceOf(calls, fn) == CHOOSE k \in 1..Len(calls) : calls[k].fn = fn

\* C18: send and declare on a Bound account ask the nonce source once, for
\* the account's own address and network, when no nonce is given, and sign
\* the value it answers; when a nonce is given, 0 included, they do not ask
\* and sign the given nonce; the max_fee they sign is 0 when none is given
\* and the given integer otherwise.  A send whose calldata does not convert
\* raises before it reaches the nonce, and a declare that finds no contract
\* class raises after the nonce and before it signs.
C18_NonceAndFeeDefaults ==
    (last.op \in {"send", "declare"} /\ IsBound(LastObj)) =>
      LET gets == CallsOf(last.calls, "get_nonce")
          nonce == last.args.nonce
          max_fee == last.args.max_fee
      IN  /\ nonce # PyNone => gets = <<>>
          /\ nonce = PyNone =>
               Len(gets) = IF last.result = "ValueError" THEN 0 ELSE 1
          /\ \A k \in 1..Len(gets) :
               /\ gets[k].address = LastObj.address
               /\ gets[k].network = LastObj.network
          /\ last.result \notin {"ValueError", "ArtifactNotFound"} =>
               Len(AllSignCalls) = 1
          /\ \A k \in 1..Len(AllSignCalls) :
               /\ AllSignCalls[k].nonce = IF nonce = PyNone
                                          THEN gets[1].returns
                                          ELSE nonce.i
               /\ AllSignCalls[k].max_fee = IF max_fee = PyNone THEN 0
                                            ELSE max_fee.i
               /\ nonce = PyNone =>
                    PlaceOf(last.calls, "get_nonce")
                      < PlaceOf(last.calls, AllSignCalls[k].fn)

\* a send signed the given nonce 0 and the given max_fee without asking
C18_Witness ==
    /\ BoundCall("send")
    /\ last.args.nonce = PyInt(0)
    /\ last.args.max_fee = PyInt(5)
    /\ Len(AllSignCalls) = 1
    /\ AllSignCalls[1].nonce = 0
    /\ AllSignCalls[1].max_fee = 5
    /\ Count(last.calls, "get_nonce") = 0

\* C19: a declare on a Bound account whose contract class cannot be loaded
\* ends in the artifact-not-found error with neither sign_declare nor the
\* Dispatcher declare called; one that succeeds has loaded the class, then
\* called sign_declare once, then the Dispatcher declare once with the
\* signature sign_declare gave.
C19_DeclareLoadsThenSignsThenDeclares ==
    BoundCall("declare") =>
      LET a == last.args
          file == contract_class_file(a.contract_name, a.overriding_path)
          signs == CallsOf(last.calls, "sign_declare")
          decls == CallsOf(last.calls, "declare")
      IN  /\ Count(last.calls, "get_contract_class") = 1
          /\ file \notin ArtifactFiles =>
               /\ last.result = "ArtifactNotFound"
               /\ signs = <<>>
               /\ decls = <<>>
          /\ Len(signs) <= 1
          /\ Len(decls) <= 1
          /\ signs # <<>> =>
               /\ PlaceOf(last.calls, "get_contract_class")
                    < PlaceOf(last.calls, "sign_declare")
               /\ signs[1].contract_class = file
          /\ decls # <<>> =>
               /\ Len(signs) = 1
               /\ signs[1].ok
               /\ PlaceOf(last.calls, "sign_declare")
                    < PlaceOf(last.calls, "declare")
               /\ decls[1].signature =
                    <<SigR(LastObj.signer, signs[1].nonce),
                      SigS(LastObj.signer, signs[1].max_fee)>>
          /\ last.result = "ok" => Len(signs) = 1 /\ Len(decls) = 1

\* a declare found no contract class although the signer and the Dispatcher
\* were ready
C19_Witness ==
    /\ BoundCall("declare")
    /\ last.result = "ArtifactNotFound"
    /\ last.args.contract_name = "nft"
    /\ last.args.overriding_path = PyNone
    /\ Count(last.calls, "get_contract_class") = 1

\* C20: on an object whose constructor found no signer (no address, index,
\* network or signer), send, declare and deploy_contract, with a nonce or
\* without, end in an error with no signing call and no Dispatcher call.
C20_FailedObjectRejectsOperations ==
    (last.op \in {"send", "declare", "deploy_contract"}
       /\ ~IsBound(LastObj)) =>
      /\ last.result \in {"AttributeError", "ArtifactNotFound"}
      /\ AllSignCalls = <<>>
      /\ DispatchCalls = <<>>
      /\ Count(last.calls, "get_nonce") = 0
      /\ LastObj = FailedObj

\* a declare with the nonce given loaded its class and then found no signer
C20_Witness ==
    /\ last.op = "declare"
    /\ LastObj = FailedObj
    /\ last.args.nonce = PyInt(0)
    /\ last.result = "AttributeError"
    /\ Count(last.calls, "get_contract_class") = 1

-----------------------------------------------------------------------------
(* Properties of interleaved calls, checked under SpecRace *)

\* the calls that hold a nonce of the nonce source and are not dispatched
InFlight(t) == threads[t].pc \in {"read", "signed"} /\ ~threads[t].explicit

\* C9: a call without an explicit nonce holds, signs and dispatches the very
\* nonce the network held when the call asked, so two such calls that asked
\* before either was accepted hold the same nonce; of two finished calls
\* with the same nonce the network accepted at most one; the Account object
\* is as its constructor left it.
C9_NonceRace ==
    /\ \A t \in Callers :
         (InFlight(t) /\ ~threads[t].stale) => threads[t].nonce = chainNonce
    /\ \A t, u \in Callers :
         (InFlight(t) /\ InFlight(u) /\ ~threads[t].stale /\ ~threads[u].stale)
         => threads[t].nonce = threads[u].nonce
    /\ \A t, u \in Callers :
         (/\ t # u
          /\ threads[t].pc = "done" /\ threads[u].pc = "done"
          /\ threads[t].nonce = threads[u].nonce)
         => ~(threads[t].accepted /\ threads[u].accepted)
    /\ objs = <<BoundObj(1, <<"A">>, "goerli", DeployedAddress(public_key(1)), 0)>>

\* two calls without explicit nonces dispatched the same nonce, and the
\* network rejected one of them
C9_Witness ==
    \E t, u \in Callers :
        /\ t # u
        /\ threads[t].pc = "done" /\ threads[u].pc = "done"
        /\ ~threads[t].explicit /\ ~threads[u].explicit
        /\ threads[t].nonce = threads[u].nonce
        /\ threads[t].accepted /\ ~threads[u].accepted

-----------------------------------------------------------------------------
(* Properties of the two-limb integers, checked under SpecPure *)

InUintRange(a) == a >= 0 /\ a < Limb * Limb

\* C10: for every integer a in [0, 2^256), both limbs of to_uint(a) are in
\* [0, 2^128) and from_uint(to_uint(a)) = a.
C10_UintRoundTrip ==
    /\ (calc.fn = "to_uint" /\ InUintRange(calc.arg)) =>
         /\ calc.result[1] \in 0..(Limb - 1)
         /\ calc.result[2] \in 0..(Limb - 1)
    /\ (calc.fn = "from_uint" /\ InUintRange(calc.input)) =>
         calc.result = calc.input

\* the largest value of the range went through to_uint and from_uint
C10_Witness ==
    /\ calc.fn = "from_uint"
    /\ calc.input = Limb * Limb - 1
    /\ calc.arg = <<Limb - 1, Limb - 1>>
    /\ calc.result = calc.input

\* both limbs of a pair are in [0, 2^128)
LimbsInRange(uint) ==
    uint[1] \in 0..(Limb - 1) /\ uint[2] \in 0..(Limb - 1)

\* C11: for uint pairs a and b with b non-zero, div_rem_uint(a, b) returns
\* pairs q and r with from_uint(q) * from_uint(b) + from_uint(r) =
\* from_uint(a) and 0 <= from_uint(r) < from_uint(b), q being the integer
\* quotient over the whole two-limb range.
C11_DivRemIdentity ==
    (calc.fn = "div_rem_uint" /\ from_uint(calc.b) # 0) =>
      /\ calc.result.ok
      /\ LET q == from_uint(calc.result.value[1])
             r == from_uint(calc.result.value[2])
             x == from_uint(calc.a)
             y == from_uint(calc.b)
         IN  /\ q * y + r = x
             /\ 0 <= r /\ r < y
             /\ q = x \div y
             /\ LimbsInRange(calc.result.value[1])
             /\ LimbsInRange(calc.result.value[2])

\* C12: hex_address of a number of up to 64 hex digits, 64 included, given
\* as an int or as its hex string, is the string of 0x and the 64 digits of
\* the number, zeros first, the same for both forms.
C12_HexAddressCanonical ==
    (calc.fn = "hex_address" /\ CanNormalize(calc.arg)) =>
      LET n == normalize_number(calc.arg)
          digits == HexDigits(n)
      IN  /\ calc.result.t = "str"
          /\ Len(calc.result.s) = AddressDigits + 2
          /\ StartsWith0x(calc.result.s)
          /\ calc.result.s =
               <<"0", "x">>
                 \o [k \in 1..(AddressDigits - Len(digits)) |-> "0"]
                 \o digits
          /\ calc.result = hex_address(PyInt(n))

\* C13: felt_to_str of the felt str_to_felt made of an ASCII text of up to
\* 31 characters is that text, with no character added or lost.
C13_FeltRoundTrip ==
    calc.fn = "felt_to_str" =>
      /\ calc.result.ok
      /\ calc.result.value = PyStr(calc.text)

\* the integer of the operation on the values of the operands
ExactResult ==
    LET x == from_uint(calc.a)
        y == from_uint(calc.b)
    IN  IF calc.fn = "add_uint" THEN x + y
        ELSE IF calc.fn = "sub_uint" THEN x - y
        ELSE x * y

\* C14: add_uint, sub_uint and mul_uint return a pair with both limbs in
\* [0, 2^128), the pair to_uint makes of the integer result modulo 2^256.
C14_ArithmeticWraps ==
    calc.fn \in {"add_uint", "sub_uint", "mul_uint"} =>
      /\ LimbsInRange(calc.result)
      /\ calc.result = to_uint(ExactResult % (Limb * Limb))

\* C15: div_rem_uint of any uint pair a and the zero pair fails with the
\* division-by-zero error and returns neither quotient nor remainder.
C15_DivisionByZeroRaises ==
    (calc.fn = "div_rem_uint" /\ calc.b = <<0, 0>>) =>
      /\ ~calc.result.ok
      /\ calc.result.error = "ZeroDivisionError"
      /\ DOMAIN calc.result = {"ok", "error"}

\* the largest pair was divided by the zero pair and the division raised
C15_Witness ==
    /\ calc.fn = "div_rem_uint"
    /\ calc.a = <<Limb - 1, Limb - 1>>
    /\ calc.b = <<0, 0>>
    /\ ~calc.result.ok

====
